---- MODULE Spec2Model ----
(***************************************************************************)
(* Model of the PPT-Generator pipeline: LLMClient (backend/llm_client.py), *)
(* the /api/generate request handler (main.py), the slide assembler and    *)
(* the template profile (backend/pptx_builder.py) and the text splitter    *)
(* (backend/utils.py).                                                     *)
(*                                                                         *)
(* Strings.  A Python str is modelled as the non-empty sequence of its     *)
(* lines, i.e. of the pieces str.split('\n') returns.  A line is a record  *)
(* [txt, len]: txt names the characters, len is the number of characters.  *)
(* A line is either made of whitespace only (txt = " ") or carries no      *)
(* leading or trailing whitespace, so that str.strip() of a line is the    *)
(* line itself or the empty line.  The empty string is <<EmptyLine>>.      *)
(*                                                                         *)
(* JSON values are records [k, v]: k is the kind ("str", "list", "dict",   *)
(* "num", or "absent" for a key that is missing) and v the payload.        *)
(***************************************************************************)
EXTENDS Integers, Sequences, FiniteSets, TLC

(***************************************************************************)
(* Bounds of the model.                                                    *)
(***************************************************************************)
MaxParas == 2
MaxExtraLines == 6
MaxEntries == 2
MaxToks == 5
MaxShapes == 2
MaxTemplateSlides == 2
NumRequests == 2
MaxNameToks == 3

(***************************************************************************)
(* Program constants.                                                      *)
(***************************************************************************)
ChunkLimit == 500
TitleLimit == 100
ContentLimit == 800
ParsedBulletLimit == 6
FallbackBulletLimit == 5
FallbackSlideLimit == 8
MinTextLength == 10

(***************************************************************************)
(* str primitives                                                          *)
(***************************************************************************)
Line(t, n) == [txt |-> t, len |-> n]
EmptyLine == Line(" ", 0)
EmptyStr == <<EmptyLine>>
OneLine(t, n) == <<Line(t, n)>>
IsBlankLine(l) == l.txt = " "

Min(a, b) == IF a < b THEN a ELSE b

RECURSIVE SumLen(_)
SumLen(s) == IF s = <<>> THEN 0 ELSE Head(s).len + SumLen(Tail(s))

\* len(s): the characters of the lines plus one '\n' between two lines
StrLen(s) == SumLen(s) + (Len(s) - 1)

\* bool(s): a str is truthy when it is not empty
StrTruthy(s) == StrLen(s) > 0

\* '\n' in s
HasNewline(s) == Len(s) > 1

\* s.split('\n'), each piece as a str
SplitLines(s) == [i \in 1..Len(s) |-> <<s[i]>>]

\* '\n'.join(pieces) for one-line pieces; the join of no piece is ''
JoinLines(pieces) ==
    IF pieces = <<>> THEN EmptyStr ELSE [i \in 1..Len(pieces) |-> pieces[i][1]]

IsBlankStr(s) == \A i \in 1..Len(s) : IsBlankLine(s[i])

FirstNonBlank(s) == CHOOSE i \in 1..Len(s) :
    /\ ~IsBlankLine(s[i])
    /\ \A j \in 1..(i - 1) : IsBlankLine(s[j])

LastNonBlank(s) == CHOOSE i \in 1..Len(s) :
    /\ ~IsBlankLine(s[i])
    /\ \A j \in (i + 1)..Len(s) : IsBlankLine(s[j])

\* s.strip(): leading and trailing whitespace (blank lines included) removed
Strip(s) ==
    IF IsBlankStr(s) THEN EmptyStr
    ELSE SubSeq(s, FirstNonBlank(s), LastNonBlank(s))

MergeLine(a, b) ==
    IF a.len = 0 THEN b
    ELSE IF b.len = 0 THEN a
    ELSE Line(IF IsBlankLine(a) /\ IsBlankLine(b) THEN " " ELSE a.txt \o b.txt,
              a.len + b.len)

\* a + b: the last line of a and the first line of b become one line
Concat(a, b) ==
    SubSeq(a, 1, Len(a) - 1) \o <<MergeLine(a[Len(a)], b[1])>> \o Tail(b)

\* the str "\n\n"
BlankLineSep == <<EmptyLine, EmptyLine, EmptyLine>>

RECURSIVE TakeLines(_, _)
TakeLines(s, n) ==
    IF s = <<>> THEN <<>>
    ELSE IF Head(s).len >= n
         THEN <<IF n = 0 THEN EmptyLine ELSE Line(Head(s).txt, n)>>
         ELSE IF Tail(s) = <<>> THEN <<Head(s)>>
              ELSE <<Head(s)>> \o TakeLines(Tail(s), n - Head(s).len - 1)

\* s[:n]
Slice(s, n) == TakeLines(s, n)

\* s.split('\n\n'): '\n\n' is found where a line of length 0 stands between
\* two newlines; matches are taken left to right and do not overlap
RECURSIVE SplitBlank(_, _, _)
SplitBlank(s, i, cur) ==
    IF i > Len(s) THEN <<cur>>
    ELSE LET cur2 == Append(cur, s[i]) IN
         IF i + 1 < Len(s) /\ s[i + 1].len = 0
         THEN <<cur2>> \o SplitBlank(s, i + 2, <<>>)
         ELSE SplitBlank(s, i + 1, cur2)

SplitParagraphs(s) == SplitBlank(s, 1, <<>>)

RECURSIVE SelectNonBlank(_)
SelectNonBlank(seq) ==
    IF seq = <<>> THEN <<>>
    ELSE IF IsBlankStr(Head(seq)) THEN SelectNonBlank(Tail(seq))
         ELSE <<Strip(Head(seq))>> \o SelectNonBlank(Tail(seq))

(***************************************************************************)
(* JSON values                                                             *)
(***************************************************************************)
Absent == [k |-> "absent"]
JStr(s) == [k |-> "str", v |-> s]
JList(items) == [k |-> "list", v |-> items]
JDict(n) == [k |-> "dict", n |-> n]
JNum == [k |-> "num"]
NoType == "(absent)"

\* a JSON object that is a slide entry, and the top-level JSON object
SlideObj(title, type, content) ==
    [k |-> "obj", title |-> title, type |-> type, content |-> content]
DeckObj(title, subtitle, slides) ==
    [k |-> "deck", title |-> title, subtitle |-> subtitle, slides |-> slides]

\* dict.get(key, default) and dict.setdefault(key, default) on a modelled key
Get(value, default) == IF value.k = "absent" THEN default ELSE value

\* isinstance(slide, dict)
IsDict(j) == j.k \in {"obj", "dict", "deck"}

\* len(x) of a str, list or dict
PyLen(j) ==
    CASE j.k = "str" -> StrLen(j.v)
      [] j.k = "list" -> Len(j.v)
      [] j.k = "dict" -> j.n
      [] OTHER -> 0

\* x[:n] of a list
Prefix(seq, n) == SubSeq(seq, 1, Min(n, Len(seq)))

\* the characters str() shows for a title inside an f-string
ReprText(j) == IF j.k = "str" THEN j.v[1].txt ELSE j.k

(***************************************************************************)
(* LLMClient._parse_llm_response                                           *)
(*                                                                         *)
(* The raw model text is a record [wrap, body].  body is the JSON-ish part *)
(* of the text: [k |-> "prose"] (no JSON and no brace), [k |-> "badobj"]   *)
(* (braces around text that is not JSON), or [k |-> "json", v |-> value]   *)
(* (the JSON text of value).  wrap is what surrounds it: "none", "prose"   *)
(* (prose or a markdown fence, no brace character) or "braces" (prose that *)
(* itself holds a brace character before and after the body).              *)
(***************************************************************************)
Raw(wrap, body) == [k |-> "raw", wrap |-> wrap, body |-> body]
Prose == [k |-> "prose"]
BadObj == [k |-> "badobj"]
Json(v) == [k |-> "json", v |-> v]
ParseError == [k |-> "error"]

\* the body's own text holds '{' and '}'
BodyHasBraces(body) ==
    \/ body.k = "badobj"
    \/ body.k = "json" /\ body.v.k = "deck"

\* re.search(r'\{.*\}', response, re.DOTALL): the span from the first '{'
\* to the last '}' of the whole text, or no match
RegexSearch(response) ==
    IF BodyHasBraces(response.body)
    THEN [matched |-> TRUE,
          exact |-> response.wrap # "braces",
          body |-> response.body]
    ELSE IF response.wrap = "braces"
         THEN [matched |-> TRUE, exact |-> FALSE, body |-> response.body]
         ELSE [matched |-> FALSE,
               exact |-> response.wrap = "none",
               body |-> response.body]

\* json.loads(json_str): the value when json_str is exactly one JSON text
JsonLoads(span) ==
    IF span.exact /\ span.body.k = "json" THEN span.body.v ELSE ParseError

DefaultSlideTitle(i) == JStr(OneLine("Slide " \o ToString(i), 7))
DefaultSlideContent(i) == JStr(OneLine("Content for slide " \o ToString(i), 19))
DefaultDeckTitle == JStr(OneLine("AI Generated Presentation", 25))
DefaultDeckSubtitle == JStr(OneLine("Created with AI", 15))

RECURSIVE NonBlankLines(_)
NonBlankLines(s) ==
    IF s = <<>> THEN <<>>
    ELSE IF IsBlankLine(Head(s)) THEN NonBlankLines(Tail(s))
         ELSE <<JStr(<<Head(s)>>)>> \o NonBlankLines(Tail(s))

\* lines 185-192: the content of a slide typed bullets
BulletContent(content) ==
    CASE content.k = "str" -> JList(Prefix(NonBlankLines(content.v), ParsedBulletLimit))
      [] content.k = "list" -> JList(Prefix(content.v, ParsedBulletLimit))
      [] OTHER -> content

\* lines 179-194: one entry of data['slides'], i counted from 0
ValidateSlide(slide, i) ==
    LET type == IF slide.type = NoType THEN "content" ELSE slide.type
        content == Get(slide.content, DefaultSlideContent(i + 1))
    IN [title |-> Get(slide.title, DefaultSlideTitle(i + 1)),
        type |-> type,
        content |-> IF type = "bullets" THEN BulletContent(content) ELSE content,
        speaker_notes |-> Absent]

\* lines 174-194: entries that are not objects are skipped
RECURSIVE ValidateSlides(_, _)
ValidateSlides(entries, i) ==
    IF i >= Len(entries) THEN <<>>
    ELSE (IF IsDict(entries[i + 1])
          THEN <<ValidateSlide(entries[i + 1], i)>>
          ELSE <<>>) \o ValidateSlides(entries, i + 1)

\* _parse_llm_response without the check of line 170 for an empty list
ParseLlmResponse_AcceptsNoSlides(response) ==
    IF response.k = "none" THEN ParseError
    ELSE
    LET data == JsonLoads(RegexSearch(response)) IN
    IF data.k = "error" THEN ParseError
    ELSE IF data.k # "deck" \/ data.slides.k = "absent" THEN ParseError
    ELSE IF data.slides.k # "list" THEN ParseError
    ELSE [k |-> "deck",
          title |-> Get(data.title, DefaultDeckTitle),
          subtitle |-> Get(data.subtitle, DefaultDeckSubtitle),
          slides |-> ValidateSlides(data.slides.v, 0)]

\* _parse_llm_response: the deck, or ParseError when the method raises
ParseLlmResponse(response) ==
    IF response.k = "none" THEN ParseError
    ELSE
    LET data == JsonLoads(RegexSearch(response)) IN
    IF data.k = "error" THEN ParseError
    ELSE IF data.k # "deck" \/ data.slides.k = "absent" THEN ParseError
    ELSE IF data.slides.k # "list" \/ Len(data.slides.v) = 0 THEN ParseError
    ELSE [k |-> "deck",
          title |-> Get(data.title, DefaultDeckTitle),
          subtitle |-> Get(data.subtitle, DefaultDeckSubtitle),
          slides |-> ValidateSlides(data.slides.v, 0)]

(***************************************************************************)
(* LLMClient._create_fallback_structure                                    *)
(***************************************************************************)
\* lines 212-222: greedy accumulation of the paragraphs
RECURSIVE AccumulateChunks(_, _, _)
AccumulateChunks(paragraphs, current_chunk, chunks) ==
    IF paragraphs = <<>>
    THEN IF StrTruthy(current_chunk) THEN Append(chunks, Strip(current_chunk)) ELSE chunks
    ELSE LET paragraph == Head(paragraphs) IN
         IF StrLen(current_chunk) + StrLen(paragraph) < ChunkLimit
         THEN AccumulateChunks(Tail(paragraphs),
                  Concat(current_chunk, Concat(paragraph, BlankLineSep)), chunks)
         ELSE AccumulateChunks(Tail(paragraphs),
                  Concat(paragraph, BlankLineSep),
                  IF StrTruthy(current_chunk)
                  THEN Append(chunks, Strip(current_chunk)) ELSE chunks)

\* lines 209-222
FallbackChunks(text_content) ==
    AccumulateChunks(SelectNonBlank(SplitParagraphs(text_content)), EmptyStr, <<>>)

KeyPointTitle(i) == OneLine("Key Point " \o ToString(i), 11)

\* lines 227-254: the slide of one chunk, i counted from 0
FallbackSlide(chunk, i) ==
    LET lines == SplitLines(chunk)
        first_line == Strip(lines[1])
        titled == StrLen(first_line) < TitleLimit
        slide_title == IF titled THEN first_line ELSE KeyPointTitle(i + 1)
        content == IF titled THEN Strip(JoinLines(Tail(lines))) ELSE chunk
    IN IF HasNewline(content) /\ Len(SplitLines(content)) > 1
       THEN [title |-> JStr(slide_title),
             type |-> "bullets",
             content |-> JList(Prefix(NonBlankLines(content), FallbackBulletLimit)),
             speaker_notes |-> Absent]
       ELSE [title |-> JStr(slide_title),
             type |-> "content",
             content |-> JStr(Slice(content, ContentLimit)),
             speaker_notes |-> Absent]

\* _create_fallback_structure without the default slide of lines 259-263
CreateFallbackStructure_NoDefaultSlide(text_content, guidance) ==
    LET chunks == Prefix(FallbackChunks(text_content), FallbackSlideLimit)
    IN [k |-> "deck",
        title |-> DefaultDeckTitle,
        subtitle |-> JStr(OneLine("Based on your content", 21)),
        slides |-> [i \in 1..Len(chunks) |-> FallbackSlide(chunks[i], i - 1)]]

\* the guidance is not read
CreateFallbackStructure(text_content, guidance) ==
    LET chunks == Prefix(FallbackChunks(text_content), FallbackSlideLimit)
        slides == [i \in 1..Len(chunks) |-> FallbackSlide(chunks[i], i - 1)]
    IN [k |-> "deck",
        title |-> DefaultDeckTitle,
        subtitle |-> JStr(OneLine("Based on your content", 21)),
        slides |-> IF slides # <<>> THEN slides
                   ELSE <<[title |-> JStr(OneLine("Your Content", 12)),
                           type |-> "content",
                           content |-> JStr(Slice(text_content, ContentLimit)),
                           speaker_notes |-> Absent]>>]

(***************************************************************************)
(* LLMClient._generate_speaker_notes and generate_presentation_structure   *)
(***************************************************************************)
\* the text the adapter returns for the note call of the i-th slide
NoteText(i) == JStr(OneLine("note " \o ToString(i), 40))

\* line 313: the note when the adapter call raises
PlaceholderNote(slide) ==
    JStr(OneLine("Present the key points about " \o ReprText(slide.title), 68 + PyLen(slide.title)))

\* failed is the set of slide positions whose note call raises
GenerateSpeakerNotes(slide, i, failed) ==
    IF i \in failed THEN PlaceholderNote(slide) ELSE NoteText(i)

\* lines 103-104 with the notes handed out in the reverse of the slide order
WithSpeakerNotes_Reversed(data, failed) ==
    [data EXCEPT !.slides = [i \in 1..Len(data.slides) |->
        [data.slides[i] EXCEPT !.speaker_notes =
            GenerateSpeakerNotes(data.slides[Len(data.slides) + 1 - i],
                                 Len(data.slides) + 1 - i, failed)]]]

\* lines 103-104
WithSpeakerNotes(data, failed) ==
    [data EXCEPT !.slides = [i \in 1..Len(data.slides) |->
        [data.slides[i] EXCEPT !.speaker_notes = GenerateSpeakerNotes(data.slides[i], i, failed)]]]

\* The adapter's behaviour on the structure call: [k |-> "raise"] or
\* [k |-> "text", response |-> raw text]; a response of [k |-> "none"]
\* is a completion without text content.
AdapterRaise == [k |-> "raise"]
AdapterText(response) == [k |-> "text", response |-> response]
NoContent == [k |-> "none"]

\* TRUE when the try block of generate_presentation_structure raises
StructureFails(outcome) ==
    \/ outcome.k = "raise"
    \/ ParseLlmResponse(outcome.response).k = "error"

\* generate_presentation_structure if a raising note call reached the except
\* branch of line 108
GeneratePresentationStructure_NoteFailureFallsBack(text_content, guidance, outcome, failed) ==
    IF StructureFails(outcome) \/ failed # {}
    THEN CreateFallbackStructure(text_content, guidance)
    ELSE WithSpeakerNotes(ParseLlmResponse(outcome.response), failed)

GeneratePresentationStructure(text_content, guidance, outcome, failed) ==
    IF StructureFails(outcome)
    THEN CreateFallbackStructure(text_content, guidance)
    ELSE WithSpeakerNotes(ParseLlmResponse(outcome.response), failed)

(***************************************************************************)
(* utils.py: split_text_into_sections.  Its argument max_length is a       *)
(* parameter, so the texts are modelled character by character: a str is   *)
(* the sequence of its characters, over the alphabet a b . space newline.  *)
(***************************************************************************)
Whitespace == {" ", "\n"}
SentenceEnd == {".", "!", "?"}

RECURSIVE LStripChars(_)
LStripChars(s) ==
    IF s # <<>> /\ Head(s) \in Whitespace THEN LStripChars(Tail(s)) ELSE s

RECURSIVE RStripChars(_)
RStripChars(s) ==
    IF s # <<>> /\ s[Len(s)] \in Whitespace
    THEN RStripChars(SubSeq(s, 1, Len(s) - 1))
    ELSE s

\* str.strip()
StripChars(s) == RStripChars(LStripChars(s))

\* the last position of the run of whitespace that starts at i (i - 1 when
\* s[i] is not whitespace)
RECURSIVE RunEnd(_, _)
RunEnd(s, i) ==
    IF i <= Len(s) /\ s[i] \in Whitespace THEN RunEnd(s, i + 1) ELSE i - 1

\* the last position of the match of \n\s*\n at i, 0 when there is none:
\* \s* is greedy and gives back characters until a newline follows
ParagraphSepEnd(s, i) ==
    IF s[i] # "\n" THEN 0
    ELSE LET ends == {j \in (i + 1)..RunEnd(s, i + 1) : s[j] = "\n"}
         IN IF ends = {} THEN 0 ELSE CHOOSE j \in ends : \A e \in ends : e <= j

\* the last position of the match of (?<=[.!?])\s+ at i, 0 when there is none
SentenceSepEnd(s, i) ==
    IF i > 1 /\ s[i - 1] \in SentenceEnd /\ s[i] \in Whitespace
    THEN RunEnd(s, i)
    ELSE 0

\* re.split(pattern, s): the pieces between the matches, left to right;
\* pattern is "paragraph" for \n\s*\n and "sentence" for (?<=[.!?])\s+
RECURSIVE ReSplit(_, _, _, _)
ReSplit(pattern, s, i, start) ==
    IF i > Len(s) THEN <<SubSeq(s, start, Len(s))>>
    ELSE LET e == IF pattern = "paragraph" THEN ParagraphSepEnd(s, i)
                  ELSE SentenceSepEnd(s, i)
         IN IF e = 0 THEN ReSplit(pattern, s, i + 1, start)
            ELSE <<SubSeq(s, start, i - 1)>> \o ReSplit(pattern, s, e + 1, e + 1)

ParagraphSplit(s) == ReSplit("paragraph", s, 1, 1)
SentenceSplit(s) == ReSplit("sentence", s, 1, 1)

\* lines 119-126: the loop over the sentences of an over-long paragraph;
\* acc is [chunks, temp]
RECURSIVE AccumulateSentences(_, _, _)
AccumulateSentences(sentences, acc, max_length) ==
    IF sentences = <<>> THEN acc
    ELSE LET sent == Head(sentences)
             next ==
                IF Len(acc.temp) + Len(sent) <= max_length
                THEN [acc EXCEPT !.temp = acc.temp \o <<" ">> \o sent]
                ELSE [chunks |-> IF acc.temp # <<>>
                                 THEN Append(acc.chunks, StripChars(acc.temp))
                                 ELSE acc.chunks,
                      temp |-> sent]
         IN AccumulateSentences(Tail(sentences), next, max_length)

\* lines 110-130: the loop over the paragraphs; acc is [chunks, current]
RECURSIVE AccumulateParagraphs(_, _, _)
AccumulateParagraphs(paragraphs, acc, max_length) ==
    IF paragraphs = <<>> THEN acc
    ELSE LET para == Head(paragraphs)
             flushed == IF acc.current # <<>>
                        THEN Append(acc.chunks, StripChars(acc.current))
                        ELSE acc.chunks
             split == AccumulateSentences(SentenceSplit(para),
                                          [chunks |-> flushed, temp |-> <<>>], max_length)
             next ==
                IF Len(acc.current) + Len(para) <= max_length
                THEN [acc EXCEPT !.current =
                        acc.current \o (IF acc.current # <<>> THEN <<"\n", "\n">> ELSE <<>>)
                                    \o para]
                ELSE IF Len(para) <= max_length
                THEN [chunks |-> flushed, current |-> para]
                ELSE [chunks |-> split.chunks, current |-> split.temp]
         IN AccumulateParagraphs(Tail(paragraphs), next, max_length)

\* split_text_into_sections(text, max_length): the list of chunks.  The
\* alphabet has no carriage return, so replace("\r\n", "\n") changes nothing.
SplitTextIntoSections(text, max_length) ==
    IF text = <<>> THEN <<>>
    ELSE LET acc == AccumulateParagraphs(ParagraphSplit(StripChars(text)),
                                         [chunks |-> <<>>, current |-> <<>>], max_length)
         IN IF acc.current # <<>>
            THEN Append(acc.chunks, StripChars(acc.current))
            ELSE acc.chunks

(***************************************************************************)
(* utils.py: sanitize_filename.  A file name is a sequence of characters;  *)
(* "DEL" stands for the character \x7f.                                    *)
(***************************************************************************)
NameLimit == 100
InvalidChars == {"<", ">", ":", "\"", "|", "?", "*", "\\", "/"}
ControlChars == {"\t", "\n", "\r", "\f", "DEL"}
RegexSpace == {" ", "\t", "\n", "\r", "\f"}
PresentationName == <<"p", "r", "e", "s", "e", "n", "t", "a", "t", "i", "o", "n">>
Reserved ==
    {<<"C", "O", "N">>, <<"P", "R", "N">>, <<"A", "U", "X">>,
     <<"N", "U", "L">>, <<"C", "O", "M", "1">>, <<"C", "O", "M", "2">>,
     <<"C", "O", "M", "3">>, <<"C", "O", "M", "4">>, <<"C", "O", "M", "5">>,
     <<"C", "O", "M", "6">>, <<"C", "O", "M", "7">>, <<"C", "O", "M", "8">>,
     <<"C", "O", "M", "9">>, <<"L", "P", "T", "1">>, <<"L", "P", "T", "2">>,
     <<"L", "P", "T", "3">>, <<"L", "P", "T", "4">>, <<"L", "P", "T", "5">>,
     <<"L", "P", "T", "6">>, <<"L", "P", "T", "7">>, <<"L", "P", "T", "8">>,
     <<"L", "P", "T", "9">>}

LowerCase ==
    <<"a", "b", "c", "d", "e", "f", "g", "h", "i", "j", "k", "l", "m", "n", "o", "p", "q", "r", "s", "t", "u", "v", "w", "x", "y", "z">>
UpperCase ==
    <<"A", "B", "C", "D", "E", "F", "G", "H", "I", "J", "K", "L", "M", "N", "O", "P", "Q", "R", "S", "T", "U", "V", "W", "X", "Y", "Z">>
UpperChar(c) ==
    IF \E i \in 1..26 : LowerCase[i] = c
    THEN UpperCase[CHOOSE i \in 1..26 : LowerCase[i] = c]
    ELSE c
\* str.upper()
Upper(s) == [i \in 1..Len(s) |-> UpperChar(s[i])]

\* re.sub(r'[<>:"|?*\\/]', '_', s)
ReplaceInvalid(s) == [i \in 1..Len(s) |-> IF s[i] \in InvalidChars THEN "_" ELSE s[i]]

\* re.sub(r'[\x00-\x1f\x7f]', '', s)
NotControl(c) == c \notin ControlChars
RemoveControl(s) == SelectSeq(s, NotControl)

\* re.sub(r'[_\s]+', '_', s)
\* a character with whether it starts a match: it is outside the class, or
\* the first character of a run of the class
StartsMatch(pair) == pair[2]
CollapseRuns(s) ==
    LET class == RegexSpace \cup {"_"}
        pairs == [i \in 1..Len(s) |->
                    <<IF s[i] \in class THEN "_" ELSE s[i],
                      s[i] \notin class \/ i = 1 \/ s[i - 1] \notin class>>]
        kept == SelectSeq(pairs, StartsMatch)
    IN [i \in 1..Len(kept) |-> kept[i][1]]

\* str.lstrip(chars), str.rstrip(chars)
RECURSIVE LStripSet(_, _)
LStripSet(s, chars) ==
    IF s # <<>> /\ Head(s) \in chars THEN LStripSet(Tail(s), chars) ELSE s
RECURSIVE RStripSet(_, _)
RStripSet(s, chars) ==
    IF s # <<>> /\ s[Len(s)] \in chars
    THEN RStripSet(SubSeq(s, 1, Len(s) - 1), chars)
    ELSE s

SanitizeFilename(filename, max_length) ==
    IF filename = <<>> THEN PresentationName
    ELSE LET collapsed == CollapseRuns(RemoveControl(ReplaceInvalid(filename)))
             stripped == RStripSet(LStripSet(collapsed, {" ", ".", "_"}), {" ", ".", "_"})
             named == IF stripped = <<>> THEN PresentationName ELSE stripped
             cut == IF Len(named) > max_length
                    THEN RStripSet(SubSeq(named, 1, max_length), {"_", "."})
                    ELSE named
             sanitized == RStripSet(cut, {" ", "."})
         IN IF Upper(sanitized) \in Reserved THEN <<"_">> \o sanitized ELSE sanitized

(***************************************************************************)
(* pptx_builder.py: extract_template_info.  A presentation object is       *)
(* [layouts, slides].  A layout is [name, readable, placeholders] and a    *)
(* placeholder [type, idx, ok]; a slide is [readable, shapes] and a shape  *)
(* [fill, rgb].  Reading an attribute of a placeholder that is not ok, or  *)
(* the colour of a shape whose fill is "raise", raises inside the inner    *)
(* try blocks; walking a layout or a slide that is not readable raises     *)
(* inside the outer try block only.                                        *)
(***************************************************************************)
RGBColor(r, g, b) == <<r, g, b>>

\* lines 148-156
DefaultColors ==
    <<RGBColor(44, 62, 80), RGBColor(52, 152, 219), RGBColor(46, 204, 113),
      RGBColor(241, 196, 15), RGBColor(231, 76, 60), RGBColor(155, 89, 182),
      RGBColor(149, 165, 166)>>

\* lines 162-167: the profile returned by the except branch
FailureProfile ==
    [k |-> "info", layouts |-> <<>>,
     colors |-> <<RGBColor(44, 62, 80), RGBColor(52, 152, 219)>>,
     fonts |-> <<"Calibri", "Arial">>, images |-> <<>>]

\* lines 124-136: the placeholders of a layout, the raising ones skipped
RECURSIVE PlaceholderInfos(_)
PlaceholderInfos(placeholders) ==
    IF placeholders = <<>> THEN <<>>
    ELSE (IF Head(placeholders).ok
          THEN <<[type |-> Head(placeholders).type, idx |-> Head(placeholders).idx]>>
          ELSE <<>>)
         \o PlaceholderInfos(Tail(placeholders))

\* lines 117-138
LayoutInfo(layout) ==
    [name |-> layout.name, placeholders |-> PlaceholderInfos(layout.placeholders)]

\* lines 142-149: the solid fill colours of the shapes, each taken once
RECURSIVE ShapeColors(_, _)
ShapeColors(shapes, colors) ==
    IF shapes = <<>> THEN colors
    ELSE LET shape == Head(shapes)
             seen == {colors[i] : i \in 1..Len(colors)}
         IN ShapeColors(Tail(shapes),
                        IF shape.fill = "solid" /\ shape.rgb \notin seen
                        THEN Append(colors, shape.rgb)
                        ELSE colors)

RECURSIVE SlideColors(_, _)
SlideColors(slides, colors) ==
    IF slides = <<>> THEN colors
    ELSE SlideColors(Tail(slides), ShapeColors(Head(slides).shapes, colors))

\* an exception reaches the outer except of extract_template_info
ExtractionFails(prs) ==
    \/ \E i \in 1..Len(prs.layouts) : ~prs.layouts[i].readable
    \/ \E i \in 1..Len(prs.slides) : ~prs.slides[i].readable

\* extract_template_info(prs)
ExtractTemplateInfo(prs) ==
    IF ExtractionFails(prs) THEN FailureProfile
    ELSE LET colors == SlideColors(prs.slides, <<>>)
         IN [k |-> "info",
             layouts |-> [i \in 1..Len(prs.layouts) |-> LayoutInfo(prs.layouts[i])],
             colors |-> IF colors = <<>> THEN DefaultColors ELSE colors,
             fonts |-> <<>>,
             images |-> <<>>]

(***************************************************************************)
(* Inputs                                                                  *)
(***************************************************************************)
\* Source texts: up to MaxParas paragraphs separated by one blank line.  A
\* paragraph is a first line followed by 0, 1 or MaxExtraLines short lines.
HeadLines == {Line("h50", 50), Line("h100", 100), Line("h300", 300), Line("h900", 900)}
ExtraCounts == {0, 1, MaxExtraLines}
ItemLine(i) == Line("item" \o ToString(i), 30)
Para(head, n) == <<head>> \o [i \in 1..n |-> ItemLine(i)]
ParaSet == {Para(h, n) : h \in HeadLines, n \in ExtraCounts}

SeqsUpTo(S, n) == UNION {[1..m -> S] : m \in 1..n}

RECURSIVE JoinParas(_)
JoinParas(ps) ==
    IF Len(ps) = 1 THEN ps[1]
    ELSE ps[1] \o <<EmptyLine>> \o JoinParas(Tail(ps))

WhitespaceText == <<Line(" ", 2), EmptyLine, EmptyLine, Line(" ", 3)>>
Texts == {EmptyStr, WhitespaceText} \cup {JoinParas(ps) : ps \in SeqsUpTo(ParaSet, MaxParas)}
BaseTexts == {JoinParas(<<Para(Line("h50", 50), 1)>>)}
Guidances == {"", "make it short"}

\* Slide entries of the model's JSON.  ManyLines is one more than the
\* bullet cap allows.
ManyLines == MaxExtraLines + 1
ShortText == JStr(OneLine("Welcome", 7))
LongText == JStr(OneLine("essay", ContentLimit + 1))
LinesText(n) == JStr([i \in 1..n |-> ItemLine(i)])
StrItems(n) == JList([i \in 1..n |-> JStr(<<ItemLine(i)>>)])
MixedItems == JList(<<JNum, JStr(<<ItemLine(2)>>)>>)
OkTitle == JStr(OneLine("Intro", 5))
BlankTitle == JStr(EmptyStr)

Entries ==
    {SlideObj(t, "content", ShortText) : t \in {Absent, BlankTitle, OkTitle}}
    \cup {SlideObj(OkTitle, ty, ShortText) :
            ty \in {NoType, "title", "bullets", "conclusion", "image"}}
    \cup {SlideObj(OkTitle, "bullets", c) :
            c \in {Absent, LinesText(ManyLines), StrItems(2), StrItems(ManyLines),
                   MixedItems, JDict(ManyLines), JNum}}
    \cup {SlideObj(OkTitle, "content", c) : c \in {LongText, StrItems(2), JNum}}
    \cup {JNum, ShortText}

DeckTitle == JStr(OneLine("Q3 Review", 9))
DeckSubtitle == JStr(OneLine("Quarterly", 9))

\* raw texts that make _parse_llm_response raise
BadResponses ==
    {NoContent,
     Raw("none", Prose),
     Raw("none", BadObj),
     Raw("none", Json(JNum)),
     Raw("none", Json(JList(<<>>))),
     Raw("prose", Json(JNum)),
     Raw("none", Json(DeckObj(DeckTitle, DeckSubtitle, Absent))),
     Raw("none", Json(DeckObj(DeckTitle, DeckSubtitle, JNum))),
     Raw("none", Json(DeckObj(DeckTitle, DeckSubtitle, JList(<<>>)))),
     Raw("braces", Json(DeckObj(DeckTitle, DeckSubtitle, JList(<<SlideObj(OkTitle, "content", ShortText)>>))))}

\* raw texts holding one JSON object with a non-empty 'slides' list
DeckResponses ==
    {Raw("none", Json(DeckObj(DeckTitle, DeckSubtitle, JList(es)))) :
        es \in SeqsUpTo(Entries, MaxEntries)}
    \cup {Raw(w, Json(DeckObj(t, t, JList(<<SlideObj(OkTitle, "bullets", StrItems(2))>>)))) :
            w \in {"none", "prose"}, t \in {Absent, DeckTitle}}

FailingOutcomes == {AdapterRaise} \cup {AdapterText(r) : r \in BadResponses}
DeckOutcomes == {AdapterText(r) : r \in DeckResponses}

\* the slide positions whose note call can fail under an outcome
NoteCalls(outcome) ==
    IF StructureFails(outcome) THEN {}
    ELSE 1..Len(ParseLlmResponse(outcome.response).slides)

LLMCall(text, guidance, outcome, failed) ==
    [k |-> "call", text_content |-> text, guidance |-> guidance,
     outcome |-> outcome, failed |-> failed]

\* the adapter outcomes drawn for a call: every failing outcome for every
\* text, and every deck for the base text
OutcomesFor(text, g) ==
    FailingOutcomes \cup (IF text \in BaseTexts /\ g = "" THEN DeckOutcomes ELSE {})

\* Presentation objects.  Placeholder types are named after the library's
\* PP_PLACEHOLDER members the code tests for (TITLE, BODY = 2, SUBTITLE = 4).
Ph(type, idx) == [type |-> type, idx |-> idx, ok |-> TRUE]
RaisingPh == [type |-> "BODY", idx |-> 9, ok |-> FALSE]
Layout(name, placeholders) ==
    [name |-> name, readable |-> TRUE, placeholders |-> placeholders]
UnreadableLayout == [name |-> "Broken", readable |-> FALSE, placeholders |-> <<>>]
TitleLayout == Layout("Title Slide", <<Ph("TITLE", 0), Ph("SUBTITLE", 1)>>)
ContentLayout == Layout("Title and Content", <<Ph("TITLE", 0), Ph("BODY", 1)>>)
BlankLayout == Layout("Blank", <<>>)
Shape(fill, rgb) == [fill |-> fill, rgb |-> rgb]
TemplateSlide(shapes) == [k |-> "template", readable |-> TRUE, shapes |-> shapes]
UnreadableSlide == [k |-> "template", readable |-> FALSE, shapes |-> <<>>]
Prs(layouts, slides) == [k |-> "prs", layouts |-> layouts, slides |-> slides]

SeqsFromZero(S, n) == {<<>>} \cup SeqsUpTo(S, n)

\* the presentations handed to extract_template_info
Shapes ==
    {Shape("solid", RGBColor(255, 0, 0)), Shape("solid", RGBColor(0, 0, 255)),
     Shape("none", RGBColor(0, 0, 0)), Shape("raise", RGBColor(0, 0, 0))}
Placeholders == {Ph("TITLE", 0), Ph("BODY", 1), RaisingPh}
PrsSlides ==
    {<<>>, <<TemplateSlide(<<Shape("solid", RGBColor(255, 0, 0))>>), UnreadableSlide>>}
    \cup {<<TemplateSlide(shapes)>> : shapes \in SeqsFromZero(Shapes, MaxShapes)}
    \cup {<<TemplateSlide(<<Shape("solid", RGBColor(255, 0, 0))>>), TemplateSlide(shapes)>> :
            shapes \in SeqsFromZero(Shapes, MaxShapes)}
PrsLayouts ==
    {<<>>, <<TitleLayout, UnreadableLayout>>}
    \cup {<<Layout("Custom", phs)>> : phs \in SeqsFromZero(Placeholders, MaxShapes)}
    \cup {<<TitleLayout, Layout("Custom", phs)>> : phs \in SeqsFromZero(Placeholders, MaxShapes)}

\* Form fields of /api/generate.  The texts: shorter than the form's
\* min_length, whitespace only, short once trimmed, and texts that pass.
RequestTexts ==
    {OneLine("hi", 2),
     OneLine(" ", 12),
     <<Line("hi", 2), Line(" ", 8)>>,
     OneLine("h50", 50),
     <<EmptyLine>> \o JoinParas(<<Para(Line("h50", 50), MaxExtraLines), Para(Line("h900", 900), 0)>>)}

ApiKeys == {"short", "padded", "ok"}

\* The uploaded template: its file name, its size ("empty", "ok", "big"),
\* whether it is a zip with the package entries (zip_ok), whether the
\* document library can open it (loadable), and the presentation it holds.
Upload(filename, size, zip_ok, loadable, prs) ==
    [k |-> "upload", filename |-> filename, size |-> size, zip_ok |-> zip_ok,
     loadable |-> loadable, prs |-> prs]
BodyOnlyLayout == Layout("Body", <<Ph("BODY", 1)>>)
StandardLayouts == <<TitleLayout, ContentLayout>>
RequestLayouts ==
    {<<>>, <<TitleLayout>>, <<ContentLayout>>, StandardLayouts,
     <<TitleLayout, BlankLayout>>, <<TitleLayout, BodyOnlyLayout>>,
     <<TitleLayout, ContentLayout, BlankLayout>>}
TemplateSlides(n) ==
    [i \in 1..n |-> TemplateSlide(<<Shape("solid", RGBColor(255, 0, 0))>>)]
RequestTemplates ==
    {Prs(layouts, <<>>) : layouts \in RequestLayouts}
    \cup {Prs(StandardLayouts, TemplateSlides(n)) : n \in 1..MaxTemplateSlides}
Uploads ==
    {Upload("", "ok", TRUE, TRUE, Prs(StandardLayouts, <<>>)),
     Upload("notes.txt", "ok", TRUE, TRUE, Prs(StandardLayouts, <<>>)),
     Upload("deck.pptx", "big", TRUE, TRUE, Prs(StandardLayouts, <<>>)),
     Upload("deck.pptx", "empty", FALSE, FALSE, Prs(<<>>, <<>>)),
     Upload("deck.pptx", "ok", FALSE, FALSE, Prs(<<>>, <<>>)),
     Upload("deck.pptx", "ok", TRUE, FALSE, Prs(<<>>, <<>>))}
    \cup {Upload("deck.pptx", "ok", TRUE, TRUE, prs) : prs \in RequestTemplates}

\* slide entries and adapter outcomes of the request flow
RequestEntries ==
    {SlideObj(OkTitle, "content", ShortText),
     SlideObj(OkTitle, "bullets", StrItems(ManyLines)),
     SlideObj(Absent, "image", LongText),
     SlideObj(OkTitle, "conclusion", JNum),
     SlideObj(OkTitle, "bullets", JNum),
     SlideObj(OkTitle, "title", ShortText),
     JNum}
RequestOutcomes ==
    FailingOutcomes
    \cup {AdapterText(Raw("prose", Json(DeckObj(DeckTitle, DeckSubtitle, JList(es))))) :
            es \in SeqsUpTo(RequestEntries, MaxEntries)}

\* Texts handed to split_text_into_sections: up to MaxToks pieces, each a
\* word, a word ending a sentence, a space or a newline.
Toks == {<<"a", "b">>, <<"a", ".">>, <<" ">>, <<"\n">>}
RECURSIVE Flatten(_)
Flatten(ss) == IF ss = <<>> THEN <<>> ELSE Head(ss) \o Flatten(Tail(ss))
SplitTexts == {<<>>} \cup {Flatten(ts) : ts \in SeqsUpTo(Toks, MaxToks)}
MaxLengths == 2..MaxToks
SplitCall(text, max_length) == [k |-> "split", text |-> text, max_length |-> max_length]

\* Deck titles handed to sanitize_filename: up to MaxNameToks pieces, among
\* them a reserved device name in both cases, runs of whitespace, a control
\* character, a path separator and a run of NameLimit letters.  max_length
\* is the default or a short one.
NameToks ==
    {<<"a">>, <<"C", "O", "N">>, <<"a", "u", "x">>, <<" ">>, <<"\t">>,
     <<" ", "\n", " ">>, <<"_">>, <<".">>, <<"/">>, <<"DEL">>,
     [i \in 1..NameLimit |-> "b"]}
Titles == {<<>>} \cup {Flatten(ts) : ts \in SeqsUpTo(NameToks, MaxNameToks)}
NameLengths == {4, NameLimit}
SanitizeCall(filename, max_length) ==
    [k |-> "sanitize", filename |-> filename, max_length |-> max_length]


(***************************************************************************)
(* State                                                                   *)
(***************************************************************************)
VARIABLES
    llm_call,           \* arguments and adapter behaviour of the last call of
                        \* generate_presentation_structure, [k |-> "none"] before
    presentation_data,  \* the deck it returned, [k |-> "none"] before
    pc,                 \* position of the /api/generate request
    text_content,       \* form field text_content
    guidance,           \* form field guidance
    template,           \* the uploaded template file
    temp_template_path, \* "" for None, else the path
    temp_output_path,   \* "" for None, else the path
    files,              \* the temporary files that exist on disk
    temp_files,         \* module-level list temp_files
    adapter_calls,      \* calls made to the adapter by the request
    document,           \* the saved presentation, [k |-> "none"] before
    conn_outcome,       \* what the adapter did on test_connection, "" before
    response,           \* what the request answered
    split_call,         \* arguments of the last call of split_text_into_sections
    sections,           \* the chunks it returned
    extract_call,       \* the template handed to extract_template_info
    template_info,      \* the profile it returned
    requests,           \* the position and the paths of each concurrent request
    sanitize_call,      \* arguments of the last call of sanitize_filename
    safe_name           \* the name it returned

vars == <<llm_call, presentation_data, pc, text_content, guidance, template,
          temp_template_path, temp_output_path, files, temp_files,
          adapter_calls, document, conn_outcome, response,
          split_call, sections, extract_call, template_info, requests,
          sanitize_call, safe_name>>

llm_vars == <<llm_call, presentation_data>>
request_vars == <<pc, text_content, guidance, template, temp_template_path,
                  temp_output_path, files, temp_files, adapter_calls,
                  document, conn_outcome, response>>

pure_vars == <<split_call, sections, extract_call, template_info, requests,
               sanitize_call, safe_name>>

\* Concurrent requests of one server process, and the names tempfile.mktemp
\* can return
Requests == 1..NumRequests
TempNames == {"tmp" \o ToString(i) : i \in 1..(2 * NumRequests)}
Request(at, template_path, output_path, answer) ==
    [pc |-> at, template_path |-> template_path, output_path |-> output_path,
     response |-> answer]

None == [k |-> "none"]

Init ==
    /\ llm_call = None
    /\ presentation_data = None
    /\ pc = "idle"
    /\ text_content = EmptyStr
    /\ guidance = ""
    /\ template = None
    /\ temp_template_path = ""
    /\ temp_output_path = ""
    /\ files = {}
    /\ temp_files = <<>>
    /\ adapter_calls = 0
    /\ document = None
    /\ conn_outcome = ""
    /\ response = None
    /\ split_call = None
    /\ sections = <<>>
    /\ extract_call = None
    /\ template_info = None
    /\ requests = [r \in Requests |-> Request("idle", "", "", "")]
    /\ sanitize_call = None
    /\ safe_name = <<>>

(***************************************************************************)
(* A direct call of LLMClient.generate_presentation_structure              *)
(***************************************************************************)
CallGenerateStructure ==
    /\ llm_call.k = "none"
    /\ pc = "idle"
    /\ \E text \in Texts, g \in Guidances :
       \E outcome \in OutcomesFor(text, g) :
       \E failed \in SUBSET NoteCalls(outcome) :
        /\ llm_call' = LLMCall(text, g, outcome, failed)
        /\ presentation_data' = GeneratePresentationStructure(text, g, outcome, failed)
    /\ UNCHANGED <<request_vars, pure_vars>>

NextLLM == CallGenerateStructure

SpecLLM == Init /\ [][NextLLM]_vars

(***************************************************************************)
(* A direct call of utils.split_text_into_sections                         *)
(***************************************************************************)
CallSplitText ==
    /\ split_call.k = "none"
    /\ \E text \in SplitTexts, max_length \in MaxLengths :
        /\ split_call' = SplitCall(text, max_length)
        /\ sections' = SplitTextIntoSections(text, max_length)
    /\ UNCHANGED <<llm_vars, request_vars, extract_call, template_info, requests,
                   sanitize_call, safe_name>>

NextSplit == CallSplitText

SpecSplit == Init /\ [][NextSplit]_vars

(***************************************************************************)
(* A direct call of utils.sanitize_filename                                *)
(***************************************************************************)
CallSanitizeFilename ==
    /\ sanitize_call.k = "none"
    /\ \E filename \in Titles, max_length \in NameLengths :
        /\ sanitize_call' = SanitizeCall(filename, max_length)
        /\ safe_name' = SanitizeFilename(filename, max_length)
    /\ UNCHANGED <<llm_vars, request_vars, split_call, sections, extract_call,
                   template_info, requests>>

NextSanitize == CallSanitizeFilename

SpecSanitize == Init /\ [][NextSanitize]_vars

(***************************************************************************)
(* A direct call of pptx_builder.extract_template_info                     *)
(***************************************************************************)
CallExtractTemplateInfo ==
    /\ extract_call.k = "none"
    /\ \E layouts \in PrsLayouts, slides \in PrsSlides :
        /\ extract_call' = Prs(layouts, slides)
        /\ template_info' = ExtractTemplateInfo(Prs(layouts, slides))
    /\ UNCHANGED <<llm_vars, request_vars, split_call, sections, requests,
                   sanitize_call, safe_name>>

NextTemplate == CallExtractTemplateInfo

SpecTemplate == Init /\ [][NextTemplate]_vars

(***************************************************************************)
(* main.py: the /api/generate request                                      *)
(***************************************************************************)
HttpError(status, detail) == [k |-> "http", status |-> status, detail |-> detail]
FileResponse(filename_of, doc) ==
    [k |-> "file", status |-> 200, title |-> filename_of, document |-> doc]

\* cleanup_temp_file(filepath) on the list temp_files
CleanupList(list, filepath) == IF filepath # "" THEN Append(list, filepath) ELSE list
\* cleanup_temp_file(filepath) on the disk
CleanupDisk(disk, filepath) == disk \ {filepath}

\* lines 345-349: an HTTPException leaves the handler
RaiseHttp(status, detail, template_path, output_path, disk) ==
    /\ response' = HttpError(status, detail)
    /\ temp_files' = CleanupList(CleanupList(temp_files, template_path), output_path)
    /\ files' = CleanupDisk(CleanupDisk(disk, template_path), output_path)
    /\ pc' = "done"

\* line 222 with the trim left out
TextTooShort_Untrimmed(text) == StrLen(text) < MinTextLength

\* line 222: len(text_content.strip()) < 10
TextTooShort(text) == StrLen(Strip(text)) < MinTextLength

\* lines 207-258: form validation, input checks and the template copy
SubmitRequest ==
    /\ pc = "idle"
    /\ llm_call.k = "none"
    /\ \E text \in RequestTexts, g \in Guidances, api_key \in ApiKeys, upload \in Uploads :
        /\ text_content' = text
        /\ guidance' = g
        /\ UNCHANGED <<llm_vars, pure_vars, adapter_calls, document, temp_output_path,
                       conn_outcome>>
        /\ IF StrLen(text) < MinTextLength \/ api_key = "short"
           THEN /\ response' = HttpError(422, "Invalid request data")
                /\ pc' = "done"
                /\ UNCHANGED <<template, temp_template_path, files, temp_files>>
           ELSE IF TextTooShort(text)
           THEN /\ RaiseHttp(400, "Text content is too short", "", "", files)
                /\ UNCHANGED <<template, temp_template_path>>
           ELSE IF api_key = "padded"
           THEN /\ RaiseHttp(400, "Valid API key is required", "", "", files)
                /\ UNCHANGED <<template, temp_template_path>>
           ELSE IF upload.filename = ""
           THEN /\ RaiseHttp(400, "No template file provided", "", "", files)
                /\ UNCHANGED <<template, temp_template_path>>
           ELSE IF upload.filename # "deck.pptx"
           THEN /\ RaiseHttp(400, "Template must be a .pptx or .potx file", "", "", files)
                /\ UNCHANGED <<template, temp_template_path>>
           ELSE IF upload.size = "big"
           THEN /\ RaiseHttp(413, "File too large", "", "", files)
                /\ UNCHANGED <<template, temp_template_path>>
           ELSE IF upload.size = "empty"
           THEN /\ RaiseHttp(400, "Template file is empty", "", "", files)
                /\ UNCHANGED <<template, temp_template_path>>
           ELSE /\ template' = upload
                /\ temp_template_path' = "template.pptx"
                /\ IF ~upload.zip_ok
                   THEN RaiseHttp(400, "Invalid PowerPoint file format",
                                  "template.pptx", "", files \cup {"template.pptx"})
                   ELSE /\ files' = files \cup {"template.pptx"}
                        /\ pc' = "connect"
                        /\ UNCHANGED <<temp_files, response>>

\* lines 260-272: LLMClient(...) and test_connection; the constructor raises
\* ("init_raise", an unexpected exception handled at lines 351-359), or the
\* adapter answers with text ("ok"), with no text ("empty") or raises ("raise")
TestConnection ==
    /\ pc = "connect"
    /\ UNCHANGED <<llm_vars, pure_vars, text_content, guidance, template,
                   temp_template_path, temp_output_path, document>>
    /\ \E outcome \in {"init_raise", "ok", "empty", "raise"} :
        /\ conn_outcome' = outcome
        /\ adapter_calls' = IF outcome = "init_raise" THEN adapter_calls ELSE adapter_calls + 1
        /\ IF outcome = "init_raise"
           THEN RaiseHttp(500, "An unexpected error occurred",
                          temp_template_path, temp_output_path, files)
           ELSE IF outcome = "raise"
           THEN RaiseHttp(400, "Failed to connect", temp_template_path, temp_output_path, files)
           ELSE /\ pc' = "structure"
                /\ UNCHANGED <<files, temp_files, response>>

\* lines 274-290: generate_presentation_structure and the check of its result
GenerateStructure ==
    /\ pc = "structure"
    /\ UNCHANGED <<pure_vars, text_content, guidance, template, temp_template_path,
                   temp_output_path, document, conn_outcome>>
    /\ \E outcome \in RequestOutcomes :
       \E failed \in SUBSET NoteCalls(outcome) :
        LET data == GeneratePresentationStructure(Strip(text_content), guidance, outcome, failed)
        IN /\ llm_call' = LLMCall(Strip(text_content), guidance, outcome, failed)
           /\ presentation_data' = data
           /\ adapter_calls' = adapter_calls + 1 + Cardinality(NoteCalls(outcome))
           /\ IF data.slides = <<>>
              THEN RaiseHttp(500, "Failed to analyze content",
                             temp_template_path, temp_output_path, files)
              ELSE /\ pc' = "create"
                   /\ UNCHANGED <<files, temp_files, response>>

(***************************************************************************)
(* pptx_builder.py                                                         *)
(***************************************************************************)
\* create_slide lines 177-186: the index of the layout, -1 when out of range
LayoutIndex(slide_type, nlayouts) ==
    IF slide_type \in {"content", "bullets"} THEN Min(1, nlayouts - 1)
    ELSE IF slide_type = "title" THEN 0
    ELSE IF slide_type \in {"image", "chart"}
         THEN (IF nlayouts > 2 THEN Min(2, nlayouts - 1) ELSE 1)
    ELSE 0

\* prs.slide_layouts[layout_index] raises IndexError
LayoutMissing(index, nlayouts) == index >= nlayouts \/ (index < 0 /\ -index > nlayouts)

\* bool(x) of a JSON value
Truthy(j) ==
    CASE j.k = "str" -> StrTruthy(j.v)
      [] j.k = "list" -> j.v # <<>>
      [] j.k = "dict" -> j.n > 0
      [] j.k = "num" -> TRUE
      [] OTHER -> FALSE

\* str(x): the str itself, or the printed form of another value
StrOf(j) == IF j.k = "str" THEN j.v ELSE OneLine(ReprText(j), 2)

\* the items enumerate(content) yields: the entries of a list, the keys of
\* a dict
ItemsOf(j) ==
    IF j.k = "list" THEN j.v
    ELSE [i \in 1..j.n |-> JStr(OneLine("key" \o ToString(i), 4))]

\* p.text = str(item).strip() for every item
Paragraphs(items) == [i \in 1..Len(items) |-> Strip(StrOf(items[i]))]

\* a slide made from a layout has the layout's placeholders: the first
\* placeholder of the type exists
HasPlaceholder(layout, type) ==
    \E i \in 1..Len(layout.placeholders) : layout.placeholders[i].type = type

\* What a binder did: the shape it wrote to ("placeholder", "textbox" or
\* "none"), the paragraphs written, and whether it caught an exception.
Binding(shape, paragraphs, raised) ==
    [shape |-> shape, paragraphs |-> paragraphs, raised |-> raised]
NoBinding == Binding("none", <<>>, FALSE)

\* add_title_content: the SUBTITLE placeholder only; the library's text
\* setter takes a str and raises on another value
AddTitleContent(layout, slide_data) ==
    LET content == Get(slide_data.content, JStr(EmptyStr))
    IN IF HasPlaceholder(layout, "SUBTITLE") /\ Truthy(content)
       THEN IF content.k = "str"
            THEN Binding("placeholder", <<content.v>>, FALSE)
            ELSE Binding("none", <<>>, TRUE)
       ELSE NoBinding

\* add_bullet_content: the BODY placeholder only; enumerate(content) raises
\* TypeError on a number, after text_frame.clear()
AddBulletContent(layout, slide_data) ==
    LET given == Get(slide_data.content, JList(<<>>))
        content == IF given.k = "str" THEN JList(<<given>>) ELSE given
    IN IF HasPlaceholder(layout, "BODY") /\ Truthy(content)
       THEN IF content.k \in {"list", "dict"}
            THEN Binding("placeholder", Paragraphs(ItemsOf(content)), FALSE)
            ELSE Binding("placeholder", <<>>, TRUE)
       ELSE NoBinding

\* add_content_slide: the BODY placeholder, else a new text box
AddContentSlide(layout, slide_data) ==
    LET content == Get(slide_data.content, JStr(EmptyStr))
        shape == IF HasPlaceholder(layout, "BODY") THEN "placeholder" ELSE "textbox"
    IN IF Truthy(content)
       THEN IF content.k = "list"
            THEN Binding(shape, Paragraphs(content.v), FALSE)
            ELSE Binding(shape, <<StrOf(content)>>, FALSE)
       ELSE Binding(shape, <<>>, FALSE)

\* create_slide: the slide added to the document, none when the layout
\* lookup raises (the exception is caught and logged).  The title is written
\* to the slide's title placeholder when there is one (lines 194-195) and
\* nowhere otherwise; titles are strs.  The fonts, sizes and colours set on
\* the runs are left out.
CreateSlide(layouts, slide_data, slide_index) ==
    LET slide_type == slide_data.type
        layout_index == LayoutIndex(slide_type, Len(layouts))
        position == IF layout_index < 0 THEN Len(layouts) + layout_index ELSE layout_index
        layout == layouts[position + 1]
        title == Get(slide_data.title, DefaultSlideTitle(slide_index + 1))
        notes_text == Get(slide_data.speaker_notes, JStr(EmptyStr))
    IN IF LayoutMissing(layout_index, Len(layouts)) THEN <<>>
       ELSE <<[k |-> "slide",
               index |-> slide_index,
               type |-> slide_type,
               layout |-> position,
               title |-> IF HasPlaceholder(layout, "TITLE")
                         THEN Binding("placeholder", <<title.v>>, FALSE)
                         ELSE NoBinding,
               content |-> IF slide_type = "title" THEN AddTitleContent(layout, slide_data)
                           ELSE IF slide_type = "bullets" THEN AddBulletContent(layout, slide_data)
                           ELSE AddContentSlide(layout, slide_data),
               notes |-> IF Truthy(notes_text) THEN notes_text ELSE Absent]>>

\* lines 93-94
RECURSIVE CreateSlides(_, _, _)
CreateSlides(layouts, slides_data, i) ==
    IF i > Len(slides_data) THEN <<>>
    ELSE CreateSlide(layouts, slides_data[i], i) \o CreateSlides(layouts, slides_data, i + 1)

\* del prs.slides._sldIdLst[i], i counted from 1
RemoveAt(slides, i) == SubSeq(slides, 1, i - 1) \o SubSeq(slides, i + 1, Len(slides))

RECURSIVE ClearDownFrom(_, _)
ClearDownFrom(slides, i) ==
    IF i < 1 THEN slides ELSE ClearDownFrom(RemoveAt(slides, i), i - 1)

RECURSIVE ClearUpFrom(_, _, _)
ClearUpFrom(slides, i, slide_count) ==
    IF i > slide_count THEN slides
    ELSE ClearUpFrom(IF i <= Len(slides) THEN RemoveAt(slides, i) ELSE slides,
                     i + 1, slide_count)

\* the loop of lines 70-74 run from the first index up
ClearSlides_Ascending(slides) == ClearUpFrom(slides, 1, Len(slides))

\* lines 69-74: the loop from the last index down to the first
ClearSlides(slides) == ClearDownFrom(slides, Len(slides))

BuildFailed == [ok |-> FALSE, prs |-> None]

\* create_presentation_from_template if lines 83-89 were left out: no title
\* slide is made and the deck's slides come first
CreatePresentationFromTemplate_NoTitleSlide(tpl, data, save_ok) ==
    IF ~tpl.loadable THEN BuildFailed
    ELSE IF data.slides = <<>> THEN BuildFailed
    ELSE LET slides == ClearSlides(tpl.prs.slides)
                       \o CreateSlides(tpl.prs.layouts, data.slides, 1)
         IN IF save_ok THEN [ok |-> TRUE, prs |-> Prs(tpl.prs.layouts, slides)]
            ELSE BuildFailed

\* create_presentation_from_template: [ok, prs]; ok is the returned bool and
\* prs the presentation saved at output_path.  extract_template_info changes
\* nothing in the presentation and its profile only sets colours.
CreatePresentationFromTemplate(tpl, data, save_ok) ==
    IF ~tpl.loadable THEN BuildFailed
    ELSE IF data.slides = <<>> THEN BuildFailed
    ELSE LET title_slide_data == [title |-> data.title, content |-> data.subtitle,
                                  type |-> "title", speaker_notes |-> Absent]
             slides == ClearSlides(tpl.prs.slides)
                       \o CreateSlide(tpl.prs.layouts, title_slide_data, 0)
                       \o CreateSlides(tpl.prs.layouts, data.slides, 1)
         IN IF save_ok THEN [ok |-> TRUE, prs |-> Prs(tpl.prs.layouts, slides)]
            ELSE BuildFailed

\* lines 292-343: the presentation is built and answered as a file
CreatePresentation ==
    /\ pc = "create"
    /\ temp_output_path' = "output.pptx"
    /\ UNCHANGED <<llm_vars, pure_vars, text_content, guidance, template,
                   temp_template_path, adapter_calls, conn_outcome>>
    /\ \E save_ok \in BOOLEAN :
        LET built == CreatePresentationFromTemplate(template, presentation_data, save_ok)
        IN IF ~built.ok
           THEN /\ RaiseHttp(500, "Failed to create presentation",
                             temp_template_path, "output.pptx", files)
                /\ UNCHANGED document
           ELSE /\ document' = built.prs
                /\ files' = files \cup {"output.pptx"}
                /\ response' = FileResponse(presentation_data.title, built.prs)
                /\ pc' = "done"
                /\ UNCHANGED temp_files

(***************************************************************************)
(* main.py: concurrent /api/generate requests of one server process.  A    *)
(* handler runs on the event loop: it is suspended at await                *)
(* template_file.read() (line 239) and runs from there to its return       *)
(* without giving the loop back, the adapter calls being blocking calls.   *)
(* The module-level list temp_files and the disk are the shared state.     *)
(***************************************************************************)
conc_unchanged == <<llm_vars, split_call, sections, extract_call, template_info,
                    sanitize_call, safe_name,
                    pc, text_content, guidance, template, temp_template_path,
                    temp_output_path, adapter_calls, document, conn_outcome, response>>

\* lines 218-239: the checks made before the upload is read; a refused
\* request has no path and cleanup_temp_file(None) does nothing
ReceiveRequest(r) ==
    /\ pc = "idle"
    /\ llm_call.k = "none"
    /\ requests[r].pc = "idle"
    /\ \E valid \in BOOLEAN :
        requests' = [requests EXCEPT ![r] =
            IF valid THEN Request("read", "", "", "")
            ELSE Request("done", "", "", "error")]
    /\ UNCHANGED <<conc_unchanged, files, temp_files>>

\* lines 239-343: from the read of the upload to the return of the handler.
\* tempfile.mktemp returns a name that does not exist at the time of the
\* call.  The request fails before the output path is made ("early"), fails
\* after it ("late"), or answers with the file.
RunRequest(r) ==
    /\ requests[r].pc = "read"
    /\ \E template_path \in TempNames \ files :
       \E output_path \in TempNames \ (files \cup {template_path}) :
       \E outcome \in {"early", "late", "file"} :
        IF outcome = "file"
        THEN /\ requests' = [requests EXCEPT ![r] =
                    Request("sending", template_path, output_path, "file")]
             /\ files' = files \cup {template_path, output_path}
             /\ UNCHANGED temp_files
        ELSE LET made == IF outcome = "late" THEN output_path ELSE ""
             IN /\ requests' = [requests EXCEPT ![r] =
                        Request("done", template_path, made, "error")]
                /\ temp_files' = CleanupList(CleanupList(temp_files, template_path), made)
                /\ files' = CleanupDisk(CleanupDisk(files \cup {template_path}, template_path), made)
    /\ UNCHANGED conc_unchanged

\* the FileResponse has sent the output file
ResponseSent(r) ==
    /\ requests[r].pc = "sending"
    /\ requests' = [requests EXCEPT ![r].pc = "done"]
    /\ UNCHANGED <<conc_unchanged, files, temp_files>>

NextConcurrent ==
    \E r \in Requests :
        \/ ReceiveRequest(r)
        \/ RunRequest(r)
        \/ ResponseSent(r)

SpecConcurrent == Init /\ [][NextConcurrent]_vars

Next ==
    \/ SubmitRequest
    \/ TestConnection
    \/ GenerateStructure
    \/ CreatePresentation

Spec == Init /\ [][Next]_vars
(***************************************************************************)
(* Properties                                                              *)
(***************************************************************************)
SlideTypes == {"title", "bullets", "content", "conclusion"}

\* generate_presentation_structure has been called and has returned
Called == llm_call.k = "call"
AdapterRaised == Called /\ llm_call.outcome.k = "raise"
\* the call returned the deck parsed from the model's text
Structured == Called /\ ~StructureFails(llm_call.outcome)
\* the entries of the 'slides' list of the model's JSON object
RawEntries == llm_call.outcome.response.body.v.slides.v
Slides == presentation_data.slides

\* C1 (P1 totality): when the source text is not empty and the adapter call
\* raises, generate_presentation_structure returns a deck with at least one
\* slide.
C1_Totality ==
    (AdapterRaised /\ StrLen(llm_call.text_content) > 0)
        => (presentation_data.k = "deck" /\ Len(Slides) >= 1)

\* the adapter raised on a text of whitespace only, which has no paragraph,
\* and the deck holds the single default slide
C1_Witness ==
    /\ AdapterRaised
    /\ llm_call.text_content = WhitespaceText
    /\ FallbackChunks(llm_call.text_content) = <<>>
    /\ Len(Slides) = 1
    /\ Slides[1].title = JStr(OneLine("Your Content", 12))

\* C2: in the /api/generate flow, once the text and the template have passed
\* validation, a failure of an adapter call (the connection test included)
\* never ends the request with an error it caused: the request goes on with
\* the deck of the fallback.
C2_AdapterFailureAbsorbed ==
    (pc = "done" /\ template.k # "none" /\ template.zip_ok
        /\ (conn_outcome = "raise" \/ AdapterRaised))
        => /\ ~(response.k = "http"
                /\ response.detail \in {"Failed to connect", "Failed to analyze content"})
           /\ presentation_data = CreateFallbackStructure(Strip(text_content), guidance)

\* the failures of _parse_llm_response that C3 lists, read off the raw text:
\* no JSON object, invalid JSON, not an object, no 'slides' key, 'slides'
\* not a non-empty list
C3_ParseRaises(raw) ==
    \/ raw.k = "none"
    \/ raw.body.k \in {"prose", "badobj"}
    \/ raw.wrap = "braces"
    \/ raw.body.v.k # "deck"
    \/ raw.body.v.slides.k # "list"
    \/ raw.body.v.slides.v = <<>>

\* C3: whenever the structure call raises or _parse_llm_response raises,
\* the deck returned is exactly _create_fallback_structure(text_content,
\* guidance), a function of the source text and not of the model's output.
C3_FallbackOnFailure ==
    (Called /\ (llm_call.outcome.k = "raise" \/ C3_ParseRaises(llm_call.outcome.response)))
        => presentation_data = CreateFallbackStructure(llm_call.text_content, llm_call.guidance)

\* the model answered a JSON object whose 'slides' list is empty, the text
\* has two paragraphs that do not fit one chunk, and the deck is the
\* fallback's two slides
C3_Witness ==
    /\ Called
    /\ llm_call.outcome.k = "text"
    /\ llm_call.outcome.response.k = "raw"
    /\ llm_call.outcome.response.body.k = "json"
    /\ llm_call.outcome.response.body.v.k = "deck"
    /\ llm_call.outcome.response.body.v.slides = JList(<<>>)
    /\ Len(SelectNonBlank(SplitParagraphs(llm_call.text_content))) = 2
    /\ Len(Slides) = 2
    /\ presentation_data.subtitle = JStr(OneLine("Based on your content", 21))

\* C4: whatever the model answered, the deck returned by
\* generate_presentation_structure has a non-empty 'slides' list.
C4_DeckNeverEmpty == Called => Slides # <<>>

\* C5: normalization rejects no entry: the deck parsed from a 'slides' list
\* of n entries has n slides, and the slide of the j-th entry is the j-th
\* slide.
C5_NoEntryRejected ==
    Structured =>
        /\ Len(Slides) = Len(RawEntries)
        /\ \A j \in 1..Len(RawEntries) :
            IsDict(RawEntries[j]) =>
                /\ j <= Len(Slides)
                /\ Slides[j].title = Get(RawEntries[j].title, DefaultSlideTitle(j))

\* C6: every slide of a parsed deck has a title that is a non-blank string
\* and a type among title, bullets, content, conclusion.
C6_TitleAndTypeRepaired ==
    Structured =>
        \A j \in 1..Len(Slides) :
            /\ Slides[j].title.k = "str"
            /\ ~IsBlankStr(Slides[j].title.v)
            /\ Slides[j].type \in SlideTypes

IsStrList(j) == j.k = "list" /\ \A i \in 1..Len(j.v) : j.v[i].k = "str"

\* C7: after normalization a slide typed bullets holds a list of strings and
\* every other slide holds one string.
C7_ContentMatchesType ==
    Called =>
        \A j \in 1..Len(Slides) :
            IF Slides[j].type = "bullets"
            THEN IsStrList(Slides[j].content)
            ELSE Slides[j].content.k = "str"

\* C8 (P3 bullet cap): every slide typed bullets of a returned deck,
\* structured or fallback, holds at most 6 content entries.
C8_BulletCap ==
    Called =>
        \A j \in 1..Len(Slides) :
            Slides[j].type = "bullets" => PyLen(Slides[j].content) <= 6

\* C9: every slide whose content is free text holds at most 800 characters,
\* on the structured path and on the fallback path.
C9_TextCap ==
    Called =>
        \A j \in 1..Len(Slides) :
            Slides[j].content.k = "str" => StrLen(Slides[j].content.v) <= 800

\* the sentences of a text, as split_text_into_sections finds them: the
\* pieces between sentence breaks of every paragraph of the trimmed text
SentencesOf(text) ==
    LET paragraphs == ParagraphSplit(StripChars(text))
    IN UNION {{SentenceSplit(paragraphs[i])[j] :
                    j \in 1..Len(SentenceSplit(paragraphs[i]))} :
              i \in 1..Len(paragraphs)}

\* C11: when every sentence of the text is at most max_length characters
\* long, every chunk split_text_into_sections(text, max_length) returns is
\* at most max_length characters long, the separators it inserted between
\* paragraphs and between sentences included.
C11_ChunksWithinMaxLength ==
    (split_call.k = "split"
        /\ \A sent \in SentencesOf(split_call.text) : Len(sent) <= split_call.max_length)
        => \A i \in 1..Len(sections) : Len(sections[i]) <= split_call.max_length

\* the paragraphs of the source text, trimmed, the blank ones left out
SourceParagraphs == SelectNonBlank(SplitParagraphs(llm_call.text_content))

\* the characters a slide's content holds: of the text, or of the bullets
\* with one newline between two bullets
RECURSIVE ItemChars(_)
ItemChars(items) ==
    IF items = <<>> THEN 0
    ELSE (IF Head(items).k = "str" THEN StrLen(Head(items).v) ELSE 0) + ItemChars(Tail(items))
ContentChars(content) ==
    CASE content.k = "str" -> StrLen(content.v)
      [] content.k = "list" -> ItemChars(content.v) + (IF content.v = <<>> THEN 0 ELSE Len(content.v) - 1)
      [] OTHER -> 0

\* C12 (Scenario B): when the adapter raises and the source text has at least
\* two paragraphs, one of them longer than the chunk bound, the fallback deck
\* has at least 2 slides, no slide holds more content than the chunk bound,
\* and the first slide's title is the first line of the first paragraph
\* when that line is under 100 characters.
C12_ScenarioB ==
    (AdapterRaised
        /\ Len(SourceParagraphs) >= 2
        /\ \E i \in 1..Len(SourceParagraphs) : StrLen(SourceParagraphs[i]) > ChunkLimit)
        => /\ Len(Slides) >= 2
           /\ \A j \in 1..Len(Slides) : ContentChars(Slides[j].content) <= ChunkLimit
           /\ StrLen(<<SourceParagraphs[1][1]>>) < TitleLimit
                => Slides[1].title = JStr(<<SourceParagraphs[1][1]>>)

Extracted == extract_call.k = "prs"

\* C14 (P4 style floor): for a template with zero slides and zero layouts,
\* extract_template_info returns a palette of exactly the 7 default colours
\* and a font list of exactly one default font.
C14_StyleFloor ==
    (Extracted /\ extract_call.layouts = <<>> /\ extract_call.slides = <<>>)
        => /\ template_info.colors = DefaultColors
           /\ Len(template_info.colors) = 7
           /\ Len(template_info.fonts) = 1

\* what extract_template_info returns for a template with no colour to find
NoColourProfile == ExtractTemplateInfo(Prs(<<>>, <<>>))

\* C15: extract_template_info always returns a profile; when the extraction
\* fails it returns the palette and the font list it returns for a template
\* in which no colour can be found; and a placeholder or a shape that raises
\* alone does not discard the others: the layouts keep their readable
\* placeholders and the palette keeps the colours of the other shapes.
C15_FailureGivesDefaultProfile ==
    Extracted =>
        /\ template_info.k = "info"
        /\ ExtractionFails(extract_call)
            => /\ template_info.colors = NoColourProfile.colors
               /\ template_info.fonts = NoColourProfile.fonts
        /\ ~ExtractionFails(extract_call)
            => /\ Len(template_info.layouts) = Len(extract_call.layouts)
               /\ \A i \in 1..Len(extract_call.layouts) :
                    \A j \in 1..Len(extract_call.layouts[i].placeholders) :
                        LET ph == extract_call.layouts[i].placeholders[j]
                        IN ph.ok => \E n \in 1..Len(template_info.layouts[i].placeholders) :
                                        template_info.layouts[i].placeholders[n].idx = ph.idx
               /\ \A i \in 1..Len(extract_call.slides) :
                    \A j \in 1..Len(extract_call.slides[i].shapes) :
                        LET shape == extract_call.slides[i].shapes[j]
                        IN shape.fill = "solid" =>
                            \E n \in 1..Len(template_info.colors) :
                                template_info.colors[n] = shape.rgb

\* the request answered with the saved presentation
Answered == pc = "done" /\ response.k = "file"

\* the note generate_presentation_structure made for the slide at position i
\* of the deck: the adapter's note of that position, the placeholder when
\* the call of that position raised, none on the fallback path
NoteOfIndex(i) ==
    IF Structured
    THEN (IF i \in llm_call.failed THEN PlaceholderNote(Slides[i]) ELSE NoteText(i))
    ELSE Absent

MadeFrom(i) ==
    {a \in 1..Len(document.slides) :
        document.slides[a].k = "slide" /\ document.slides[a].index = i}

\* the content binding of the slide made from position i raised
BindingFailed(i) == \E a \in MadeFrom(i) : document.slides[a].content.raised

\* the slide made from position i carries the title of the deck's slide
TitlePresent(i) ==
    \E a \in MadeFrom(i) :
        /\ document.slides[a].title.shape # "none"
        /\ document.slides[a].title.paragraphs = <<Slides[i].title.v>>

\* the slide made from position i has its content written to a shape
ContentBound(i) ==
    \E a \in MadeFrom(i) :
        /\ document.slides[a].content.shape # "none"
        /\ ~document.slides[a].content.raised

\* C17 (P6 partial resilience): when the content binding of a deck slide
\* raises, the presentation is still built and saved, every other slide of
\* the deck is created with its title and content bound, and the failing
\* slide is created with its title.
C17_PartialResilience ==
    Answered =>
        \A i \in 1..Len(Slides) :
            BindingFailed(i) =>
                /\ TitlePresent(i)
                /\ \A j \in 1..Len(Slides) :
                    (j # i /\ ~BindingFailed(j)) => (TitlePresent(j) /\ ContentBound(j))

\* C18: once create_presentation_from_template has cleared the working copy,
\* no slide of the template remains in the presentation, however many slides
\* the template had, and the layouts are those of the template.
C18_NoTemplateSlideRemains ==
    Answered =>
        /\ \A a \in 1..Len(document.slides) : document.slides[a].k # "template"
        /\ document.layouts = template.prs.layouts

\* a template that came with MaxTemplateSlides slides was cleared and the
\* saved presentation holds the title slide and a slide of the deck
C18_Witness ==
    /\ Answered
    /\ Len(template.prs.slides) = MaxTemplateSlides
    /\ Len(document.slides) >= 2
    /\ document.slides[1].k = "slide"
    /\ document.slides[1].index = 0

\* C19: a slide typed title is made from the title layout (index 0); every
\* other slide, typed conclusion or any other value included, is made from
\* the content layout: index 1, or the last layout when the template has
\* fewer than 2 layouts.
C19_LayoutSelection ==
    Answered =>
        \A a \in 1..Len(document.slides) :
            LET made == document.slides[a]
                nlayouts == Len(document.layouts)
            IN made.k = "slide" =>
                IF made.type = "title" THEN made.layout = 0
                ELSE made.layout = (IF nlayouts >= 2 THEN 1 ELSE nlayouts - 1)

\* the title create_slide was given for a slide of the saved presentation:
\* the deck's title for the title slide, the slide's title otherwise
GivenTitle(made) ==
    IF made.index = 0 THEN presentation_data.title.v ELSE Slides[made.index].title.v

\* C20: every slide made by create_slide shows its title: in the TITLE
\* placeholder when the slide has one, in a text box made for it otherwise.
C20_TitleAlwaysPresent ==
    Answered =>
        \A a \in 1..Len(document.slides) :
            LET made == document.slides[a]
            IN made.k = "slide" =>
                /\ made.title.paragraphs = <<GivenTitle(made)>>
                /\ made.title.shape =
                    (IF HasPlaceholder(document.layouts[made.layout + 1], "TITLE")
                     THEN "placeholder" ELSE "textbox")

\* the content create_slide was given for a slide of the saved presentation:
\* the deck's subtitle for the title slide, the slide's content otherwise
GivenContent(made) ==
    IF made.index = 0 THEN presentation_data.subtitle ELSE Slides[made.index].content

\* C21: every slide given a non-empty content shows it, whatever its type:
\* in the SUBTITLE placeholder for a slide typed title and in the BODY
\* placeholder otherwise, or in a text box made for it when the layout has
\* no such placeholder.
C21_ContentAlwaysPresent ==
    Answered =>
        \A a \in 1..Len(document.slides) :
            LET made == document.slides[a]
                wanted == IF made.type = "title" THEN "SUBTITLE" ELSE "BODY"
            IN (made.k = "slide" /\ Truthy(GivenContent(made))) =>
                /\ made.content.paragraphs # <<>>
                /\ made.content.shape =
                    (IF HasPlaceholder(document.layouts[made.layout + 1], wanted)
                     THEN "placeholder" ELSE "textbox")

\* the deck _parse_llm_response returned for the model's text
Parsed == ParseLlmResponse(llm_call.outcome.response)

\* C22: when note calls raise, the pipeline goes on: the deck returned is the
\* parsed deck, not the fallback's; the title, type and content of every
\* slide are as parsed; the slide of a raising call carries the placeholder
\* note and every other slide the note the adapter gave for it.
C22_NoteFailureDegrades ==
    (Structured /\ llm_call.failed # {})
        => /\ presentation_data.k = "deck"
           /\ presentation_data.title = Parsed.title
           /\ presentation_data.subtitle = Parsed.subtitle
           /\ Len(Slides) = Len(Parsed.slides)
           /\ \A i \in 1..Len(Slides) :
                /\ Slides[i].title = Parsed.slides[i].title
                /\ Slides[i].type = Parsed.slides[i].type
                /\ Slides[i].content = Parsed.slides[i].content
                /\ Slides[i].speaker_notes =
                    (IF i \in llm_call.failed
                     THEN PlaceholderNote(Parsed.slides[i]) ELSE NoteText(i))

\* a parsed deck of two slides whose first note call raised: slide 1 has the
\* placeholder note, slide 2 the adapter's note, and the deck is not the
\* fallback's
C22_Witness ==
    /\ Structured
    /\ llm_call.failed = {1}
    /\ Len(Slides) = 2
    /\ Slides[1].speaker_notes = PlaceholderNote(Slides[1])
    /\ Slides[2].speaker_notes = NoteText(2)
    /\ presentation_data # CreateFallbackStructure(llm_call.text_content, llm_call.guidance)

\* C23: when the request has ended, by a file response, an HTTP error or an
\* unexpected exception, the temporary files it created (the template copy
\* and the output file) are no longer on disk.
C23_TempFilesReleased == pc = "done" => files = {}

\* the paths a request has made
PathsOf(r) == {requests[r].template_path, requests[r].output_path} \ {""}

\* the files a request has on disk
FilesOf(r) == PathsOf(r) \cap files

\* the request has written the module-level list temp_files: it has ended
\* with an error after it made its template copy
AppendedToTempFiles(r) ==
    requests[r].pc = "done" /\ requests[r].response = "error" /\ PathsOf(r) # {}

\* C24: under every interleaving of concurrent requests no file is written
\* by two requests that have not ended with an error, and no variable is
\* written by two requests.
C24_NoSharedState ==
    \A r1, r2 \in Requests :
        r1 # r2 =>
            /\ (requests[r1].response = "file" /\ requests[r2].response = "file")
                    => FilesOf(r1) \cap FilesOf(r2) = {}
            /\ ~(AppendedToTempFiles(r1) /\ AppendedToTempFiles(r2))

\* the characters sanitize_filename has no rule for
PlainChar(c) == c \notin InvalidChars \cup ControlChars \cup RegexSpace \cup {"_", "."}

\* the runs of whitespace of a name that stand between two plain characters,
\* as <<the character before, the character after>>
InnerWhitespaceRuns(filename) ==
    {<<filename[ij[1]], filename[ij[2]]>> : ij \in
        {ij \in (1..Len(filename)) \X (1..Len(filename)) :
            /\ ij[1] + 1 < ij[2]
            /\ PlainChar(filename[ij[1]])
            /\ PlainChar(filename[ij[2]])
            /\ \A m \in (ij[1] + 1)..(ij[2] - 1) : filename[m] \in RegexSpace}}

\* the name holds the three characters in a row
HasTriple(s, a, b, c) ==
    \E i \in 1..(Len(s) - 2) : s[i] = a /\ s[i + 1] = b /\ s[i + 2] = c

\* C25: the name sanitize_filename returns for a deck title is not empty,
\* has at most max_length characters, holds no path separator and no control
\* character, is not a reserved device name in any case, and, when nothing
\* had to be cut, holds one underscore for each run of spaces, tabs and
\* newlines that stood between two plain characters of the title.
C25_SafeFilename ==
    sanitize_call.k = "sanitize" =>
        /\ safe_name # <<>>
        /\ Len(safe_name) <= sanitize_call.max_length
        /\ \A i \in 1..Len(safe_name) : safe_name[i] \notin {"/", "\\"} \cup ControlChars
        /\ Upper(safe_name) \notin Reserved
        /\ Len(sanitize_call.filename) <= sanitize_call.max_length =>
            \A run \in InnerWhitespaceRuns(sanitize_call.filename) :
                HasTriple(safe_name, run[1], "_", run[2])

\* the model's text holds one JSON object that is a valid deck, alone or with
\* text around it
ValidDeckReply ==
    /\ Called
    /\ llm_call.outcome.k = "text"
    /\ llm_call.outcome.response.k = "raw"
    /\ llm_call.outcome.response.body.k = "json"
    /\ ParseLlmResponse(Raw("none", llm_call.outcome.response.body)).k # "error"

\* C26: when the model's text is one valid deck object with prose or fences
\* around it, braces in the prose included, the call returns the deck parsed
\* from exactly that object; and every call returns a deck, no failure of the
\* parse reaching the caller.
C26_BalancedObjectParsed ==
    /\ Called => presentation_data.k = "deck"
    /\ ValidDeckReply =>
        presentation_data =
            GeneratePresentationStructure(llm_call.text_content, llm_call.guidance,
                AdapterText(Raw("none", llm_call.outcome.response.body)),
                llm_call.failed)

\* create_slide finds a layout for a slide of the type
LayoutFound(slide_type) ==
    ~LayoutMissing(LayoutIndex(slide_type, Len(template.prs.layouts)),
                   Len(template.prs.layouts))

\* every slide binds: the title slide and every slide of the deck find their
\* layout and no content binding raises
EverySlideBinds ==
    /\ LayoutFound("title")
    /\ \A i \in 1..Len(Slides) : LayoutFound(Slides[i].type)
    /\ \A a \in 1..Len(document.slides) :
        document.slides[a].k = "slide" => ~document.slides[a].content.raised

\* C27: the saved document starts with one title slide made from the deck's
\* title and subtitle, before the slides of the deck: when every slide binds,
\* a deck of n slides gives n + 1 slides and the deck's slide at position i,
\* counted from 0, is the document's slide at position i + 1.
C27_TitleSlideFirst ==
    (Answered /\ EverySlideBinds) =>
        LET doc == document.slides
        IN /\ Len(doc) = Len(Slides) + 1
           /\ doc[1].k = "slide"
           /\ doc[1].index = 0
           /\ doc[1].type = "title"
           /\ doc[1].title.shape # "none"
                => doc[1].title.paragraphs = <<presentation_data.title.v>>
           /\ \A i \in 1..Len(Slides) :
                /\ doc[i + 1].k = "slide"
                /\ doc[i + 1].index = i
                /\ doc[i + 1].type = Slides[i].type

\* a deck of two slides built on a template that had slides of its own: the
\* document holds the title slide and the two slides
C27_Witness ==
    /\ Answered
    /\ EverySlideBinds
    /\ template.prs.slides # <<>>
    /\ Len(Slides) = 2
    /\ Len(document.slides) = 3
    /\ document.slides[1].type = "title"
    /\ document.slides[1].title.shape # "none"
    /\ document.slides[3].index = 2

\* the call returned the fallback deck and the source text gave chunks
FallbackFromChunks ==
    /\ Called
    /\ StructureFails(llm_call.outcome)
    /\ FallbackChunks(llm_call.text_content) # <<>>

\* C28: every slide _create_fallback_structure builds from a chunk has
\* content that is not empty, a chunk of a single line under 100 characters
\* included.
C28_FallbackContentNotEmpty ==
    FallbackFromChunks =>
        \A i \in 1..Len(Slides) : ContentChars(Slides[i].content) > 0

\* C29: a request answered with the file has a saved document that holds a
\* slide made from every slide of the deck.
C29_SuccessMeansEverySlide ==
    Answered => \A i \in 1..Len(Slides) : MadeFrom(i) # {}

====
